---- MODULE Spec2Model ----
(***************************************************************************)
(* Model of the mezuri version-tagging and publish protocol.               *)
(*                                                                         *)
(*   - the command-line workflow of src/cli/utils.py (component_init,      *)
(*     component_commit, component_publish) and src/cli/source.py          *)
(*     (generate), over a local git repository, its remote and a registry  *)
(*     (specification Spec);                                               *)
(*   - the registry of src/registry/app.py, one request at a time          *)
(*     (specification SpecRegistry) and with requests interleaved at       *)
(*     statement granularity (specification SpecConcurrent);               *)
(*   - the verification of src/registry/app.py (fetch_remote_spec), its    *)
(*     calls interleaved at statement granularity over the scratch         *)
(*     directories and the working directory of the registry process       *)
(*     (specification SpecFetch).                                          *)
(*                                                                         *)
(* common.constructs (Version, VersionTag), common.git / utilities.git     *)
(* (Git), common.registry (RegistryClient) and utilities (temporary_dir,   *)
(* working_dir) are not part of the sources at hand; they are modelled     *)
(* from the specification and from the way the sources use them.  Every Git call whose outcome the sources inspect     *)
(* (clone, push, commit, rev_parse) signals failure through its return     *)
(* value, so a failing Git call is modelled as returning a failure status  *)
(* and never as raising.                                                   *)
(***************************************************************************)
EXTENDS Integers, Sequences, FiniteSets, TLC

\* ------------------------------------------------------------------ bounds

\* The major versions a user types range over 0..MaxMajor.
MaxMajor == 1
\* The model stops creating tags in a repository that holds MaxTags of them.
MaxTags == 3
\* The model stops registering versions in a registry that holds MaxRecords
\* OperatorVersion records.
MaxRecords == 2
\* The number of calls of fetch_remote_spec the registry process runs.
NumCalls == 2
\* The revisions of the generated interface declaration (0: none).
Revisions == 1..2

\* ---------------------------------------------------------------- versions

\* A Version is <<major, minor, patch, update counter>>.
DEFAULT_VERSION == <<0, 0, 0, 0>>

\* "no explicit version" (version=None) of component_commit.
NoVersion == <<>>

\* The versions a user types: a.0.0 and 0.1.0 (an update counter is only ever
\* minted by publish).
InputVersions == {<<a, 0, 0, 0>> : a \in 0..MaxMajor} \cup {<<0, 1, 0, 0>>}

\* The total order: lexicographic on the tuple.
VersionLess(a, b) ==
    \E i \in 1..4 : /\ a[i] < b[i]
                    /\ \A j \in 1..(i - 1) : a[j] = b[j]

VersionLeq(a, b) == a = b \/ VersionLess(a, b)

\* str(Version): the update counter is printed only when it is not the
\* default 0.
VersionStr(v) == IF v[4] = 0 THEN <<v[1], v[2], v[3]>> ELSE v

\* Version(s): a missing update counter is the default 0.
VersionParse(s) == IF Len(s) = 3 THEN <<s[1], s[2], s[3], 0>> ELSE s

\* ------------------------------------------------------------ version tags

COMPONENT_TYPE == "sources"

COMPONENT_NAME == "demo"

\* What VersionTag.parse can know of the component's name: the tag string
\* does not carry it.
NoName == ""

VersionTag(component_type, name, version) ==
    [component_type |-> component_type, name |-> name, version |-> version]

TagString_OtherType(vt) == <<"mezuri", "operators", VersionStr(vt.version)>>

\* TAG_NAME_FORMAT.format(...): 'mezuri/{component_type}/{version}'.
TagString(vt) == <<"mezuri", vt.component_type, VersionStr(vt.version)>>

VersionTagParse(s) == VersionTag(s[2], NoName, VersionParse(s[3]))

\* VersionTag's order is the order of the versions.
TagLeq(a, b) == VersionLeq(a.version, b.version)

WithIncrementedUpdateNum(vt) ==
    [vt EXCEPT !.version = <<@[1], @[2], @[3], @[4] + 1>>]

\* ------------------------------------------------------------------- state

VARIABLES
    initialized,   \* the specification file exists (SPEC_PATH_KEY in ctx)
    spec,          \* the content of the specification file
    head,          \* number of commits of the local history (HEAD's hash)
    headSpec,      \* the specification file as committed at HEAD
    tags,          \* local tags in creation order: [name, message, hash]
    gitRemote,     \* a git remote is configured
    remoteHead,    \* the history the remote holds
    remoteTags,    \* the tags the remote holds: [name, hash]
    last,          \* the last operation: its inputs, steps and result
    operators,     \* registry: operator name -> object of the heap
    heap,          \* registry: the operator objects
    operator_versions, \* registry: the OperatorVersion records
    resp,          \* registry: the last response
    reqs,          \* registry: the requests in flight
    calls,         \* registry: the calls of fetch_remote_spec
    cwd,           \* registry: the working directory of the process
    scratch        \* registry: the scratch directories that exist

cliVars == <<initialized, spec, head, headSpec, tags, gitRemote, remoteHead,
             remoteTags, last>>

regVars == <<operators, heap, operator_versions, resp, reqs>>

fsVars == <<calls, cwd, scratch>>

vars == <<cliVars, regVars, fsVars>>

Messages == {"m1", "m2"}

\* The message of a tag another actor created.
OtherMessage == "other"

RC_OK == "0"

RC_FAIL == "1"

\* component_publish falls off its end after the registry call.
RC_NONE == "None"

\* Git.commit's result when there was nothing to commit.
NoCommit == 0

Range(s) == {s[i] : i \in 1..Len(s)}

Before(s, a, b) ==
    \E i, j \in 1..Len(s) : i < j /\ s[i] = a /\ s[j] = b

\* ------------------------------------------------------- the specification file

\* component_spec_defaults
SpecDefaults ==
    [name |-> NoName, version |-> DEFAULT_VERSION, iop |-> 0, publish |-> FALSE]

\* ----------------------------------------------------------------------- git

\* Git.commit: commits the tracked changes; None when there are none.
GitCommit(h, hs, s) ==
    IF h = 0 \/ s # hs
    THEN [hash |-> h + 1, head |-> h + 1, headSpec |-> s]
    ELSE [hash |-> NoCommit, head |-> h, headSpec |-> hs]

TagNames(ts) == {t.name : t \in Range(ts)}

\* Git.tag.create: fails, leaving the tags as they are, when the name is taken.
GitTagCreate(ts, name, message, hash) ==
    IF name \in TagNames(ts)
    THEN [ok |-> FALSE, tags |-> ts]
    ELSE [ok |-> TRUE,
          tags |-> Append(ts, [name |-> name, message |-> message, hash |-> hash])]

\* Git.tag.message
GitTagMessage(ts, name) == (CHOOSE t \in Range(ts) : t.name = name).message

\* Git.tag.hash
GitTagHash(ts, name) == (CHOOSE t \in Range(ts) : t.name = name).hash

\* max(VersionTag.parse(tag) for tag in tags)
LastTag(ts) ==
    LET parsed == {VersionTagParse(n) : n \in TagNames(ts)}
    IN  CHOOSE t \in parsed : \A u \in parsed : TagLeq(u, t)

\* ------------------------------------------------------------ the registry

OpNames == {"demo", "other"}

Urls == {"r1", "r2"}

\* The version strings the requests carry: "0.1.0" and "1.0.0".
RegVersions == {<<0, 1, 0>>, <<1, 0, 0>>}

\* The version_tag string a request for `version` carries.
RegTag(version) == <<"mezuri", COMPONENT_TYPE, version>>

Hashes == {"h1", "h2"}

\* The commit a fresh clone has checked out: the head of the default branch.
HeadCommit == "h0"

\* Git.rev_parse of a reference the clone does not hold.
NoHash == ""

\* operators.get(operator_name, None) of a name that is not registered.
NoOperator == 0

\* What fetch_remote_spec finds at the remote, as far as it looks: whether
\* the clone succeeds, what the tag resolves to in the clone, whether the
\* checkout succeeds, and the state of the specification file in the working
\* tree; `head` is the commit the clone has checked out to begin with.
SpecFiles == {"valid", "missing", "invalid"}

NoEnv ==
    [cloneOk |-> FALSE, resolved |-> NoHash, checkoutOk |-> FALSE,
     head |-> NoHash, specFile |-> "missing"]

\* The remotes a request claiming `version_hash` can meet, told apart as far
\* as fetch_remote_spec looks at them: the clone fails; the tag resolves to
\* something else; the tag resolves to the claimed hash, and then the checkout
\* succeeds or fails and the specification file is valid, missing or invalid.
FetchEnvs(version_hash) ==
    {NoEnv}
    \cup {[cloneOk |-> TRUE, resolved |-> r, checkoutOk |-> FALSE,
           head |-> NoHash, specFile |-> "missing"] :
             r \in (Hashes \cup {NoHash}) \ {version_hash}}
    \cup {[cloneOk |-> TRUE, resolved |-> version_hash, checkoutOk |-> TRUE,
           head |-> HeadCommit, specFile |-> f] : f \in SpecFiles}
    \cup {[cloneOk |-> TRUE, resolved |-> version_hash, checkoutOk |-> FALSE,
           head |-> HeadCommit, specFile |-> f] : f \in {"valid", "missing"}}

\* The number of requests the registry serves concurrently.
NumReqs == 3

NoRequest ==
    [kind |-> "none", pc |-> "idle", name |-> "", url |-> "", version |-> <<>>,
     hash |-> NoHash, operator |-> NoOperator, spec |-> NoHash, status |-> 0,
     seen |-> <<>>]

NoResponse ==
    [op |-> "none", status |-> 0, name |-> "", url |-> "", version |-> <<>>,
     hash |-> NoHash, env |-> NoEnv, seen |-> <<>>]

NameTaken_Never(ops, name) == FALSE

\* if args.name in operators
NameTaken(ops, name) == ops[name] # NoOperator

\* operator = operators.get(operator_name, None); if operator is None
OperatorExists(ops, name) == ops[name] # NoOperator

\* operator = {'name': ..., 'gitRemoteUrl': ..., 'versions': []}
NewOperator(name, url) == [name |-> name, gitRemoteUrl |-> url, versions |-> <<>>]

DuplicateVersion_Never(operator, version) == FALSE

\* if args.version in operator['versions']
DuplicateVersion(operator, version) == version \in Range(operator.versions)

HashMatches_Always(resolved, version_hash) == TRUE

\* Git.rev_parse(version_tag) != version_hash
HashMatches(resolved, version_hash) == resolved = version_hash

\* fetch_remote_spec: 200 with the specification read, or the status of the
\* abort (400) or of the exception that open / json.load raise (500).  The
\* outcome of Git.checkout is not looked at: when it fails, the file read is
\* the one of the commit the clone had checked out.
FetchRemoteSpec(version_hash, env) ==
    IF ~env.cloneOk
    THEN [status |-> 400, spec |-> NoHash]
    ELSE IF ~HashMatches(env.resolved, version_hash)
    THEN [status |-> 400, spec |-> NoHash]
    ELSE IF env.specFile # "valid"
    THEN [status |-> 500, spec |-> NoHash]
    ELSE [status |-> 200,
          spec |-> IF env.checkoutOk THEN version_hash ELSE env.head]

\* operator_version = {'version': ..., 'hash': ..., 'operator_name': ...,
\* 'spec': ...}; the specification blob is named by the commit it was read at.
NewOperatorVersion(operator_name, version, version_hash, blob) ==
    [version |-> version, hash |-> version_hash,
     operator_name |-> operator_name, spec |-> blob]

\* The operator object registered under `name`.
Operator(name) == heap[operators[name]]

Response(op, status, name, url, version, hash, env) ==
    [op |-> op, status |-> status, name |-> name, url |-> url,
     version |-> version, hash |-> hash, env |-> env, seen |-> <<>>]

\* OperatorListAPI.post
RegisterOperator(name, url) ==
    /\ IF NameTaken(operators, name)
       THEN /\ resp' = Response("registerOperator", 409, name, url, <<>>,
                                NoHash, NoEnv)
            /\ UNCHANGED <<operators, heap>>
       ELSE /\ heap' = Append(heap, NewOperator(name, url))
            /\ operators' = [operators EXCEPT ![name] = Len(heap) + 1]
            /\ resp' = Response("registerOperator", 201, name, url, <<>>,
                                NoHash, NoEnv)
    /\ UNCHANGED <<operator_versions, reqs>>
    /\ UNCHANGED <<cliVars, fsVars>>

VersionsAfter_Reset(versions, version, fetched) ==
    IF fetched.status = 200 THEN <<version>> ELSE versions

\* operator['versions'].append(args.version), reached only when
\* fetch_remote_spec returned.
VersionsAfter(versions, version, fetched) ==
    IF fetched.status = 200 THEN Append(versions, version) ELSE versions

\* OperatorVersionListAPI.post.  The call of fetch_remote_spec runs to its end
\* within the request: its scratch directory is created and removed and the
\* working directory is changed and changed back.
RegisterVersion(name, version, version_tag, version_hash, env) ==
    /\ IF ~OperatorExists(operators, name)
       THEN /\ resp' = Response("registerVersion", 404, name, "", version,
                                version_hash, NoEnv)
            /\ UNCHANGED <<heap, operator_versions>>
       ELSE IF DuplicateVersion(Operator(name), version)
       THEN /\ resp' = Response("registerVersion", 409, name, "", version,
                                version_hash, NoEnv)
            /\ UNCHANGED <<heap, operator_versions>>
       ELSE LET fetched == FetchRemoteSpec(version_hash, env)
            IN  /\ fetched.status = 200 => Len(operator_versions) < MaxRecords
                /\ operator_versions' =
                     IF fetched.status = 200
                     THEN Append(operator_versions,
                                 NewOperatorVersion(name, version, version_hash,
                                                    fetched.spec))
                     ELSE operator_versions
                /\ heap' = [heap EXCEPT ![operators[name]].versions =
                                VersionsAfter(@, version, fetched)]
                /\ resp' = Response("registerVersion",
                                    IF fetched.status = 200 THEN 201
                                                            ELSE fetched.status,
                                    name, "", version, version_hash, env)
    /\ UNCHANGED <<operators, reqs>>
    /\ UNCHANGED <<cliVars, fsVars>>

\* SelectSeq without a LAMBDA: the records of operator_name, in list order.
RECURSIVE RecordsOf(_, _)
RecordsOf(records, operator_name) ==
    IF records = <<>> THEN <<>>
    ELSE IF Head(records).operator_name = operator_name
    THEN <<Head(records)>> \o RecordsOf(Tail(records), operator_name)
    ELSE RecordsOf(Tail(records), operator_name)

\* The versions of the records, in order.
VersionsOf(records) == [k \in 1..Len(records) |-> records[k].version]

\* What a read answers: `seen` is the list the answer shows (names of
\* operators, or versions), `url` and `hash` the gitRemoteUrl and the hash it
\* shows.
ReadResponse(op, status, name, url, version, hash, seen) ==
    [NoResponse EXCEPT !.op = op, !.status = status, !.name = name,
                       !.url = url, !.version = version, !.hash = hash,
                       !.seen = seen]

\* OperatorListAPI.get: operators.values(), in the order of registration.
OperatorListGet ==
    /\ resp' = ReadResponse("listOperators", 200, "", "", <<>>, NoHash,
                            [k \in 1..Len(heap) |-> heap[k].name])
    /\ UNCHANGED <<operators, heap, operator_versions, reqs>>
    /\ UNCHANGED <<cliVars, fsVars>>

\* OperatorAPI.get
OperatorGet(name) ==
    /\ resp' = IF ~OperatorExists(operators, name)
               THEN ReadResponse("getOperator", 404, name, "", <<>>, NoHash,
                                 <<>>)
               ELSE ReadResponse("getOperator", 200, name,
                                 Operator(name).gitRemoteUrl, <<>>, NoHash,
                                 Operator(name).versions)
    /\ UNCHANGED <<operators, heap, operator_versions, reqs>>
    /\ UNCHANGED <<cliVars, fsVars>>

\* OperatorVersionListAPI.get
OperatorVersionListGet(name) ==
    /\ resp' = IF ~OperatorExists(operators, name)
               THEN ReadResponse("listVersions", 404, name, "", <<>>, NoHash,
                                 <<>>)
               ELSE ReadResponse("listVersions", 200, name, "", <<>>, NoHash,
                                 VersionsOf(RecordsOf(operator_versions, name)))
    /\ UNCHANGED <<operators, heap, operator_versions, reqs>>
    /\ UNCHANGED <<cliVars, fsVars>>

MatchingRecords_AnyOperator(records, operator_name, version) ==
    {k \in 1..Len(records) : records[k].version = version}

\* if operator_version['operator_name'] == operator_name:
\*     if operator_version['version'] == version: the positions that match.
MatchingRecords(records, operator_name, version) ==
    {k \in 1..Len(records) : /\ records[k].operator_name = operator_name
                             /\ records[k].version = version}

\* OperatorVersionAPI.get: the first record that matches, else 404.
OperatorVersionGet(name, version) ==
    LET matching == MatchingRecords(operator_versions, name, version)
        first == CHOOSE k \in matching : \A l \in matching : k <= l
    IN
    /\ resp' = IF ~OperatorExists(operators, name) \/ matching = {}
               THEN ReadResponse("getVersion", 404, name, "", version, NoHash,
                                 <<>>)
               ELSE ReadResponse("getVersion", 200, name, "", version,
                                 operator_versions[first].hash,
                                 <<operator_versions[first].version>>)
    /\ UNCHANGED <<operators, heap, operator_versions, reqs>>
    /\ UNCHANGED <<cliVars, fsVars>>

\* ------------------------------------------------------ the last operation

NoOp ==
    [op |-> "none", rc |-> RC_OK, version |-> NoVersion,
     steps |-> <<>>, reg |-> <<>>, retry |-> FALSE, prevReg |-> <<>>]

\* What an operation other than publish leaves in `last`.
Done(op, rc, version, steps) ==
    [op |-> op, rc |-> rc, version |-> version,
     steps |-> steps, reg |-> <<>>, retry |-> FALSE, prevReg |-> <<>>]

\* The registry call of the last operation failed (RegistryError).
RegistryFailed(l) == l.op = "publish" /\ "registry_failed" \in Range(l.steps)

\* What a publish leaves in `last`; `retry` says that it directly follows a
\* publish whose registry call failed.
Published(rc, steps, reg) ==
    [op |-> "publish", rc |-> rc, version |-> NoVersion,
     steps |-> steps, reg |-> reg,
     retry |-> RegistryFailed(last), prevReg |-> last.reg]

\* ------------------------------------------------------------ component_init

AlreadyInitialized_Never(init) == FALSE

\* if SPEC_PATH_KEY in ctx: print('Component already initialized.'); return 1
AlreadyInitialized(init) == init

ComponentInit(version) ==
    /\ IF AlreadyInitialized(initialized)
       THEN /\ last' = Done("init", RC_FAIL, NoVersion, <<"save_spec">>)
            /\ UNCHANGED <<initialized, spec>>
       ELSE /\ initialized' = TRUE
            /\ spec' = [SpecDefaults EXCEPT !.name = COMPONENT_NAME,
                                            !.version = version]
            /\ last' = Done("init", RC_OK, NoVersion,
                            <<"git_init", "save_spec", "git_add">>)
    /\ UNCHANGED <<head, headSpec, tags, gitRemote, remoteHead, remoteTags>>
    /\ UNCHANGED <<regVars, fsVars>>

\* ------------------------------------------------------------------ generate

\* The declaration extracted from the definition file is revision `rev`.
Generate(rev) ==
    /\ IF initialized
       THEN /\ spec' = [spec EXCEPT !.iop = rev]
            /\ last' = Done("generate", RC_OK, NoVersion,
                            <<"save_spec", "git_add">>)
       ELSE /\ spec' = spec
            /\ last' = Done("generate", RC_OK, NoVersion, <<"git_add">>)
    /\ UNCHANGED <<initialized, head, headSpec, tags, gitRemote, remoteHead,
                   remoteTags>>
    /\ UNCHANGED <<regVars, fsVars>>

\* ---------------------------------------------------------- component_commit

CandidateVersion_Recorded(version, s) == s.version

\* current_version = version if version is not None else spec['version']
CandidateVersion(version, s) == IF version # NoVersion THEN version ELSE s.version

VersionConflict_Strict(version_tag, ts) ==
    /\ ts # <<>>
    /\ TagLeq(version_tag, LastTag(ts))
    /\ version_tag.version # LastTag(ts).version

VersionConflict_None(version_tag, ts) == FALSE

\* if prev_tags_raw: ... if version_tag <= last_tag: return 1
VersionConflict(version_tag, ts) ==
    ts # <<>> /\ TagLeq(version_tag, LastTag(ts))

MissingDeclaration_Never(s) == FALSE

\* if SPEC_IOP_DECLARATION_KEY not in spec: return 1
MissingDeclaration(s) == s.iop = 0

\* The result of a commit that passed its checks: the outcome of
\* Git.tag.create is not looked at.
CommitResult(tagCreated) == RC_OK

\* `raced`: between Git.tag.list() and Git.tag.create() another actor creates
\* the tag this commit is about to create.
ComponentCommit(message, version, raced) ==
    LET current_version == CandidateVersion(version, spec)
        version_tag == VersionTag(COMPONENT_TYPE, spec.name, current_version)
    IN
    /\ raced => head > 0
    /\ IF ~initialized
       THEN /\ last' = Done("commit", RC_FAIL, version, <<>>)
            /\ UNCHANGED <<spec, head, headSpec, tags>>
       ELSE IF MissingDeclaration(spec)
       THEN /\ last' = Done("commit", RC_FAIL, version, <<"save_spec">>)
            /\ UNCHANGED <<spec, head, headSpec, tags>>
       ELSE IF VersionConflict(version_tag, tags)
       THEN /\ last' = Done("commit", RC_FAIL, version,
                            <<"tag_list", "save_spec">>)
            /\ UNCHANGED <<spec, head, headSpec, tags>>
       ELSE LET newSpec == [spec EXCEPT !.version = current_version]
                c == GitCommit(head, headSpec, newSpec)
                seen == IF raced
                        THEN Append(tags, [name |-> TagString(version_tag),
                                           message |-> OtherMessage,
                                           hash |-> head])
                        ELSE tags
                t == GitTagCreate(seen, TagString(version_tag), message, c.head)
            IN  /\ Len(tags) < MaxTags
                /\ spec' = newSpec
                /\ head' = c.head
                /\ headSpec' = c.headSpec
                /\ tags' = t.tags
                /\ last' = Done("commit", CommitResult(t.ok), version,
                                <<"tag_list", "save_spec", "git_add",
                                  IF c.hash # NoCommit THEN "git_commit"
                                                       ELSE "git_commit_none",
                                  IF t.ok THEN "tag_create"
                                          ELSE "tag_create_failed">>)
    /\ UNCHANGED <<initialized, gitRemote, remoteHead, remoteTags>>
    /\ UNCHANGED <<regVars, fsVars>>

\* --------------------------------------------------------- component_publish

\* if not Git.push(publish['remote']['name']): return 1
HistoryPushGate(pushOk) == pushOk

TagPushGate_Ignored(tagPushOk) == TRUE

\* if not Git.push(publish['remote']['name'], str(tag_to_publish)): return 1
TagPushGate(tagPushOk) == tagPushOk

UpdateTagNeeded_Always(commitHash) == TRUE

\* if Git.commit('Update specification', ...) is not None
UpdateTagNeeded(commitHash) == commitHash # NoCommit

NoVersions_Never(ts) == FALSE

\* tags = Git.tag.list(); if not tags: return 1
NoVersions(ts) == ts = <<>>

TagToPublish_Candidate(candidate, updated) == candidate

\* tag_to_publish = tag_to_publish.with_incremented_update_num(), inside the
\* branch of a commit that recorded a change
TagToPublish(candidate, updated) ==
    IF updated THEN WithIncrementedUpdateNum(candidate) ELSE candidate

\* `pushOk`, `tagPushOk`: the remote accepts the push of the history, of the
\* tag; `regOk`: the registry accepts the registration.
ComponentPublish(pushOk, tagPushOk, regOk) ==
    IF NoVersions(tags)
    THEN /\ last' = Published(RC_FAIL, <<"tag_list">>, <<>>)
         /\ UNCHANGED <<initialized, spec, head, headSpec, tags, gitRemote,
                        remoteHead, remoteTags>>
         /\ UNCHANGED <<regVars, fsVars>>
    ELSE IF ~initialized
    THEN /\ last' = Published(RC_FAIL, <<"tag_list">>, <<>>)
         /\ UNCHANGED <<initialized, spec, head, headSpec, tags, gitRemote,
                        remoteHead, remoteTags>>
         /\ UNCHANGED <<regVars, fsVars>>
    ELSE
      LET tag_to_publish == LastTag(tags)
          remoteSteps == IF ~spec.publish /\ ~gitRemote THEN <<"remote_add">>
                                                        ELSE <<>>
          newSpec == [spec EXCEPT !.publish = TRUE]
          c == GitCommit(head, headSpec, newSpec)
          updated == UpdateTagNeeded(c.hash)
          pubTag == TagToPublish(tag_to_publish, updated)
          t == IF updated
               THEN GitTagCreate(tags, TagString(pubTag),
                                 GitTagMessage(tags, TagString(tag_to_publish)),
                                 c.head)
               ELSE [ok |-> TRUE, tags |-> tags]
          commitSteps == IF updated
                         THEN <<"git_commit",
                                IF t.ok THEN "tag_create" ELSE "tag_create_failed">>
                         ELSE <<"git_commit_none">>
          reg == <<TagString(pubTag), GitTagHash(t.tags, TagString(pubTag))>>
      IN
      /\ UNCHANGED initialized
      /\ UNCHANGED <<regVars, fsVars>>
      /\ gitRemote' = TRUE
      /\ IF ~HistoryPushGate(pushOk)
         THEN /\ last' = Published(RC_FAIL,
                            <<"tag_list">> \o remoteSteps
                               \o <<"push_rejected", "save_spec">>, <<>>)
              /\ UNCHANGED <<spec, head, headSpec, tags, remoteHead,
                             remoteTags>>
         ELSE /\ updated => Len(tags) < MaxTags
              /\ spec' = newSpec
              /\ remoteHead' = head
              /\ head' = c.head
              /\ headSpec' = c.headSpec
              /\ tags' = t.tags
              /\ IF ~TagPushGate(tagPushOk)
                 THEN /\ last' = Published(RC_FAIL,
                                    <<"tag_list">> \o remoteSteps
                                       \o <<"push", "save_spec">> \o commitSteps
                                       \o <<"push_tag_rejected">>, <<>>)
                      /\ UNCHANGED remoteTags
                 ELSE /\ remoteTags' = IF tagPushOk
                                       THEN remoteTags \cup
                                              {[name |-> reg[1], hash |-> reg[2]]}
                                       ELSE remoteTags
                      /\ last' = Published(RC_NONE,
                                    <<"tag_list">> \o remoteSteps
                                       \o <<"push", "save_spec">> \o commitSteps
                                       \o <<IF tagPushOk THEN "push_tag"
                                                         ELSE "push_tag_rejected",
                                            IF regOk THEN "registry_ok"
                                                     ELSE "registry_failed">>,
                                    reg)

\* ------------------------------------------------------------------ the CLI

\* The directory the registry process is started in.
Home == "home"

\* The names temporary_dir can give a scratch directory.
Dirs == {"tmp1", "tmp2", "tmp3"}

NoDirectory == ""

NoCall ==
    [pc |-> "idle", directory |-> NoDirectory, saved |-> NoDirectory,
     status |-> 0]

\* No call of fetch_remote_spec is running: no scratch directory exists and
\* the process is in the directory it was started in.
FetchIdle ==
    /\ calls = [i \in 1..NumCalls |-> NoCall]
    /\ cwd = Home
    /\ scratch = {}

\* The registry as the module creates it (operators = {}, operator_versions
\* = []), no request answered or in flight.
RegistryIdle ==
    /\ operators = [n \in OpNames |-> NoOperator]
    /\ heap = <<>>
    /\ operator_versions = <<>>
    /\ resp = NoResponse
    /\ reqs = [i \in 1..NumReqs |-> NoRequest]
    /\ FetchIdle

Init ==
    /\ initialized = FALSE
    /\ spec = SpecDefaults
    /\ head = 0
    /\ headSpec = SpecDefaults
    /\ tags = <<>>
    /\ gitRemote = FALSE
    /\ remoteHead = 0
    /\ remoteTags = {}
    /\ last = NoOp
    /\ RegistryIdle

Next ==
    \/ \E version \in InputVersions : ComponentInit(version)
    \/ \E rev \in Revisions : Generate(rev)
    \/ \E message \in Messages, version \in InputVersions \cup {NoVersion},
          raced \in BOOLEAN : ComponentCommit(message, version, raced)
    \/ \E pushOk, tagPushOk, regOk \in BOOLEAN :
          ComponentPublish(pushOk, tagPushOk, regOk)

Spec == Init /\ [][Next]_vars

\* -------------------------------------------- the registry, one request at a time

\* The working directory as the registry's specifications leave it.
CliIdle ==
    /\ initialized = FALSE
    /\ spec = SpecDefaults
    /\ head = 0
    /\ headSpec = SpecDefaults
    /\ tags = <<>>
    /\ gitRemote = FALSE
    /\ remoteHead = 0
    /\ remoteTags = {}
    /\ last = NoOp

InitRegistry == CliIdle /\ RegistryIdle

NextRegistry ==
    \/ \E name \in OpNames, url \in Urls : RegisterOperator(name, url)
    \/ \E name \in OpNames, version \in RegVersions, version_hash \in Hashes :
          \E env \in FetchEnvs(version_hash) :
             RegisterVersion(name, version, RegTag(version), version_hash, env)

SpecRegistry == InitRegistry /\ [][NextRegistry]_vars

\* ------------------------------- the registry with its reads, one request at a time

\* The remotes as far as a later read can tell them apart: the verification
\* fails (the clone does), or it succeeds, after a checkout that succeeded or
\* failed.
ReadEnvs(version_hash) ==
    {env \in FetchEnvs(version_hash) :
        ~env.cloneOk \/ FetchRemoteSpec(version_hash, env).status = 200}

NextReads ==
    \/ OperatorListGet
    \/ \E name \in OpNames : OperatorGet(name)
    \/ \E name \in OpNames : OperatorVersionListGet(name)
    \/ \E name \in OpNames, version \in RegVersions :
          OperatorVersionGet(name, version)
    \/ \E name \in OpNames, url \in Urls : RegisterOperator(name, url)
    \/ \E name \in OpNames, version \in RegVersions, version_hash \in Hashes :
          \E env \in ReadEnvs(version_hash) :
             RegisterVersion(name, version, RegTag(version), version_hash, env)

SpecReads == InitRegistry /\ [][NextReads]_vars

\* ------------------------------------------ the registry, requests interleaved

\* Request i is at statement `pc` of its handler; the statements of different
\* requests interleave.
At(i, kind, pc) == reqs[i].kind = kind /\ reqs[i].pc = pc

Finish(i, status) == [reqs EXCEPT ![i].pc = "done", ![i].status = status]

\* POST /operators arrives: args = self.parser.parse_args()
StartRegisterOperator(i, name, url) ==
    /\ reqs[i].pc = "idle"
    /\ reqs' = [reqs EXCEPT ![i] = [NoRequest EXCEPT !.kind = "registerOperator",
                                                     !.pc = "check",
                                                     !.name = name,
                                                     !.url = url]]
    /\ UNCHANGED <<operators, heap, operator_versions, resp>>
    /\ UNCHANGED <<cliVars, fsVars>>

\* OperatorListAPI.post: if args.name in operators: abort(409)
OperatorCheck(i) ==
    /\ At(i, "registerOperator", "check")
    /\ reqs' = IF NameTaken(operators, reqs[i].name)
               THEN Finish(i, 409)
               ELSE [reqs EXCEPT ![i].pc = "store"]
    /\ UNCHANGED <<operators, heap, operator_versions, resp>>
    /\ UNCHANGED <<cliVars, fsVars>>

\* OperatorListAPI.post: operators[args.name] = operator; return ..., 201
OperatorStore(i) ==
    /\ At(i, "registerOperator", "store")
    /\ heap' = Append(heap, NewOperator(reqs[i].name, reqs[i].url))
    /\ operators' = [operators EXCEPT ![reqs[i].name] = Len(heap) + 1]
    /\ reqs' = Finish(i, 201)
    /\ UNCHANGED <<operator_versions, resp>>
    /\ UNCHANGED <<cliVars, fsVars>>

\* POST /operators/<operator_name>/versions arrives
StartRegisterVersion(i, name, version, version_hash) ==
    /\ reqs[i].pc = "idle"
    /\ reqs' = [reqs EXCEPT ![i] = [NoRequest EXCEPT !.kind = "registerVersion",
                                                     !.pc = "lookup",
                                                     !.name = name,
                                                     !.version = version,
                                                     !.hash = version_hash]]
    /\ UNCHANGED <<operators, heap, operator_versions, resp>>
    /\ UNCHANGED <<cliVars, fsVars>>

\* OperatorVersionListAPI.post: operator = operators.get(operator_name, None)
VersionLookup(i) ==
    /\ At(i, "registerVersion", "lookup")
    /\ reqs' = IF ~OperatorExists(operators, reqs[i].name)
               THEN Finish(i, 404)
               ELSE [reqs EXCEPT ![i].pc = "check",
                                 ![i].operator = operators[reqs[i].name]]
    /\ UNCHANGED <<operators, heap, operator_versions, resp>>
    /\ UNCHANGED <<cliVars, fsVars>>

\* OperatorVersionListAPI.post: if args.version in operator['versions']
VersionCheck(i) ==
    /\ At(i, "registerVersion", "check")
    /\ reqs' = IF DuplicateVersion(heap[reqs[i].operator], reqs[i].version)
               THEN Finish(i, 409)
               ELSE [reqs EXCEPT ![i].pc = "fetch"]
    /\ UNCHANGED <<operators, heap, operator_versions, resp>>
    /\ UNCHANGED <<cliVars, fsVars>>

\* OperatorVersionListAPI.post: spec = fetch_remote_spec(...)
VersionFetch(i, env) ==
    /\ At(i, "registerVersion", "fetch")
    /\ LET fetched == FetchRemoteSpec(reqs[i].hash, env)
       IN  reqs' = IF fetched.status # 200
                   THEN Finish(i, fetched.status)
                   ELSE [reqs EXCEPT ![i].pc = "record",
                                     ![i].spec = fetched.spec]
    /\ UNCHANGED <<operators, heap, operator_versions, resp>>
    /\ UNCHANGED <<cliVars, fsVars>>

\* OperatorVersionListAPI.post: operator_versions.append(operator_version)
VersionRecord(i) ==
    /\ At(i, "registerVersion", "record")
    /\ operator_versions' =
         Append(operator_versions,
                NewOperatorVersion(reqs[i].name, reqs[i].version, reqs[i].hash,
                                   reqs[i].spec))
    /\ reqs' = [reqs EXCEPT ![i].pc = "append"]
    /\ UNCHANGED <<operators, heap, resp>>
    /\ UNCHANGED <<cliVars, fsVars>>

\* OperatorVersionListAPI.post: operator['versions'].append(args.version);
\* return ..., 201
VersionAppend(i) ==
    /\ At(i, "registerVersion", "append")
    /\ heap' = [heap EXCEPT ![reqs[i].operator].versions =
                    Append(@, reqs[i].version)]
    /\ reqs' = Finish(i, 201)
    /\ UNCHANGED <<operators, operator_versions, resp>>
    /\ UNCHANGED <<cliVars, fsVars>>

\* A read request is answered in one step: `seen` is the versions the answer
\* shows.
Answer(i, kind, name, version, status, seen) ==
    [reqs EXCEPT ![i] = [NoRequest EXCEPT !.kind = kind, !.pc = "done",
                                          !.name = name, !.version = version,
                                          !.status = status, !.seen = seen]]

\* OperatorAPI.get: the operator with its version list.
GetOperator(i, name) ==
    /\ reqs[i].pc = "idle"
    /\ reqs' = IF ~OperatorExists(operators, name)
               THEN Answer(i, "getOperator", name, <<>>, 404, <<>>)
               ELSE Answer(i, "getOperator", name, <<>>, 200,
                           Operator(name).versions)
    /\ UNCHANGED <<operators, heap, operator_versions, resp>>
    /\ UNCHANGED <<cliVars, fsVars>>

\* OperatorVersionListAPI.get: the records of the operator.
ListVersions(i, name) ==
    /\ reqs[i].pc = "idle"
    /\ reqs' = IF ~OperatorExists(operators, name)
               THEN Answer(i, "listVersions", name, <<>>, 404, <<>>)
               ELSE Answer(i, "listVersions", name, <<>>, 200,
                           VersionsOf(RecordsOf(operator_versions, name)))
    /\ UNCHANGED <<operators, heap, operator_versions, resp>>
    /\ UNCHANGED <<cliVars, fsVars>>

\* OperatorVersionAPI.get: the first record of the operator with the version.
GetVersion(i, name, version) ==
    /\ reqs[i].pc = "idle"
    /\ reqs' = IF ~OperatorExists(operators, name)
               THEN Answer(i, "getVersion", name, version, 404, <<>>)
               ELSE IF version \in Range(VersionsOf(RecordsOf(operator_versions,
                                                              name)))
               THEN Answer(i, "getVersion", name, version, 200, <<version>>)
               ELSE Answer(i, "getVersion", name, version, 404, <<>>)
    /\ UNCHANGED <<operators, heap, operator_versions, resp>>
    /\ UNCHANGED <<cliVars, fsVars>>

NextConcurrent ==
    \/ \E i \in 1..NumReqs, name \in OpNames : GetOperator(i, name)
    \/ \E i \in 1..NumReqs, name \in OpNames : ListVersions(i, name)
    \/ \E i \in 1..NumReqs, name \in OpNames, version \in RegVersions :
          GetVersion(i, name, version)
    \/ \E i \in 1..NumReqs, name \in OpNames, url \in Urls :
          StartRegisterOperator(i, name, url)
    \/ \E i \in 1..NumReqs : OperatorCheck(i)
    \/ \E i \in 1..NumReqs : OperatorStore(i)
    \/ \E i \in 1..NumReqs, name \in OpNames, version \in RegVersions,
          version_hash \in Hashes :
          StartRegisterVersion(i, name, version, version_hash)
    \/ \E i \in 1..NumReqs : VersionLookup(i)
    \/ \E i \in 1..NumReqs : VersionCheck(i)
    \/ \E i \in 1..NumReqs : \E env \in FetchEnvs(reqs[i].hash) :
          VersionFetch(i, env)
    \/ \E i \in 1..NumReqs : VersionRecord(i)
    \/ \E i \in 1..NumReqs : VersionAppend(i)

SpecConcurrent == InitRegistry /\ [][NextConcurrent]_vars

\* ------------------------------------ the verification, calls interleaved

\* Call i is at statement `pc` of fetch_remote_spec; the statements of
\* different calls interleave.  What the remote holds is not kept: the
\* outcome of each git step and of the reading is an input of the step.
CallAt(i, pc) == calls[i].pc = pc

\* The directory still exists.
DirectoryExists(d) == d = Home \/ d \in scratch

RemoveDirectory_Kept(dirs, d) == dirs

\* Leaving `with temporary_dir()`: the scratch directory is removed.
RemoveDirectory(dirs, d) == dirs \ {d}

\* Call i leaves its `with` blocks, by return, abort or exception, with
\* `status`.  working_dir, when it was entered, goes back to the directory it
\* found, which fails (500) when that directory is gone; temporary_dir removes
\* the scratch directory.
Unwind(i, status, entered) ==
    LET restored == ~entered \/ DirectoryExists(calls[i].saved)
    IN  /\ cwd' = IF entered /\ restored THEN calls[i].saved ELSE cwd
        /\ scratch' = RemoveDirectory(scratch, calls[i].directory)
        /\ calls' = [calls EXCEPT ![i] =
                        [NoCall EXCEPT !.pc = "done",
                                       !.status = IF restored THEN status
                                                              ELSE 500]]

\* with temporary_dir() as directory: a directory that did not exist.
EnterTemporaryDir(i, d) ==
    /\ CallAt(i, "idle")
    /\ d \notin scratch
    /\ scratch' = scratch \cup {d}
    /\ calls' = [calls EXCEPT ![i].pc = "clone", ![i].directory = d]
    /\ UNCHANGED cwd
    /\ UNCHANGED <<cliVars, regVars>>

\* if not Git.clone(remote_url, directory): abort(400)
Clone(i, cloneOk) ==
    /\ CallAt(i, "clone")
    /\ IF cloneOk
       THEN /\ calls' = [calls EXCEPT ![i].pc = "working_dir"]
            /\ UNCHANGED <<cwd, scratch>>
       ELSE Unwind(i, 400, FALSE)
    /\ UNCHANGED <<cliVars, regVars>>

\* with working_dir(directory): the working directory of the process is
\* remembered and changed; it cannot be remembered when it is gone (500).
EnterWorkingDir(i) ==
    /\ CallAt(i, "working_dir")
    /\ IF DirectoryExists(cwd)
       THEN /\ calls' = [calls EXCEPT ![i].pc = "rev_parse", ![i].saved = cwd]
            /\ cwd' = calls[i].directory
            /\ UNCHANGED scratch
       ELSE Unwind(i, 500, FALSE)
    /\ UNCHANGED <<cliVars, regVars>>

\* if Git.rev_parse(version_tag) != version_hash: abort(400).  The tag is
\* resolved in the working directory of the process; `matches`: the
\* repository there resolves it to the claimed hash.
RevParse(i, matches) ==
    /\ CallAt(i, "rev_parse")
    /\ IF matches /\ DirectoryExists(cwd)
       THEN /\ calls' = [calls EXCEPT ![i].pc = "checkout"]
            /\ UNCHANGED <<cwd, scratch>>
       ELSE Unwind(i, 400, TRUE)
    /\ UNCHANGED <<cliVars, regVars>>

\* Git.checkout(version_hash), in the working directory of the process; its
\* outcome is not looked at.
Checkout(i) ==
    /\ CallAt(i, "checkout")
    /\ calls' = [calls EXCEPT ![i].pc = "open"]
    /\ UNCHANGED <<cwd, scratch>>
    /\ UNCHANGED <<cliVars, regVars>>

\* with open(SPEC_FILENAME) as f: return json.load(f).  The file is looked up
\* in the working directory of the process; `specFile`: its state there.
ReadSpec(i, specFile) ==
    /\ CallAt(i, "open")
    /\ Unwind(i, IF specFile = "valid" /\ DirectoryExists(cwd) THEN 200 ELSE 500,
              TRUE)
    /\ UNCHANGED <<cliVars, regVars>>

NextFetch ==
    \/ \E i \in 1..NumCalls, d \in Dirs : EnterTemporaryDir(i, d)
    \/ \E i \in 1..NumCalls, cloneOk \in BOOLEAN : Clone(i, cloneOk)
    \/ \E i \in 1..NumCalls : EnterWorkingDir(i)
    \/ \E i \in 1..NumCalls, matches \in BOOLEAN : RevParse(i, matches)
    \/ \E i \in 1..NumCalls : Checkout(i)
    \/ \E i \in 1..NumCalls, specFile \in SpecFiles : ReadSpec(i, specFile)

SpecFetch == InitRegistry /\ [][NextFetch]_vars

\* ------------------------------------------------------- properties: the CLI

NetworkSteps ==
    {"push", "push_rejected", "push_tag", "push_tag_rejected",
     "registry_ok", "registry_failed"}

RegistrySteps == {"registry_ok", "registry_failed"}

Steps(l) == Range(l.steps)

\* The version of the tag at position i of the local tags.
TagVersion(i) == VersionTagParse(tags[i].name).version

\* Some existing tag is at or above version v: v <= the maximum existing tag.
NotAboveTags(v) == \E i \in 1..Len(tags) : VersionLeq(v, TagVersion(i))

\* C1: in a state with at least one tag, a commit whose candidate version
\* (the explicit version, else the version recorded in the specification
\* file) is at or below the maximum existing tag fails; it leaves the recorded
\* version, the history and the tags as they are, and talks neither to the
\* remote nor to the registry.
C1_ConflictingCommitChangesNothing ==
    [][ ( /\ last'.op = "commit"
          /\ tags # <<>>
          /\ NotAboveTags(IF last'.version # NoVersion THEN last'.version
                                                       ELSE spec.version) )
        => ( /\ last'.rc = RC_FAIL
             /\ spec' = spec
             /\ head' = head /\ headSpec' = headSpec
             /\ tags' = tags
             /\ remoteHead' = remoteHead /\ remoteTags' = remoteTags
             /\ Steps(last') \cap NetworkSteps = {} ) ]_vars

\* A commit of an explicit version below the maximum tag was just rejected on
\* a component that is initialized and has its declaration.
C1_Witness ==
    /\ last.op = "commit" /\ last.rc = RC_FAIL
    /\ initialized /\ spec.iop # 0
    /\ last.version # NoVersion
    /\ \E i \in 1..Len(tags) : VersionLess(last.version, TagVersion(i))

TagsIncrease ==
    \A i, j \in 1..Len(tags) : i < j => VersionLess(TagVersion(i), TagVersion(j))

\* C2: the tags in creation order strictly increase (a tag created by commit,
\* an update tag created by publish, is above every tag that existed); on a
\* component ready to commit, committing a version above every tag succeeds
\* and creates its tag, committing one at or below an existing tag fails.
C2_TagsStrictlyIncrease ==
    /\ []TagsIncrease
    /\ [][ ( /\ last'.op = "commit"
             /\ initialized /\ spec.iop # 0
             /\ last'.version # NoVersion )
           => IF NotAboveTags(last'.version)
              THEN last'.rc = RC_FAIL /\ tags' = tags
              ELSE /\ last'.rc = RC_OK
                   /\ Len(tags') = Len(tags) + 1
                   /\ VersionTagParse(tags'[Len(tags')].name).version
                        = last'.version ]_vars

\* Three tags, one of them an update tag of publish and one of the later ones
\* a tag of commit.
C2_Witness ==
    /\ Len(tags) = 3
    /\ \E i \in 2..3 : TagVersion(i)[4] > 0
    /\ \E j \in 2..3 : TagVersion(j)[4] = 0

\* C8: publish pushes the history, then the tag, then calls the registry; a
\* rejected push of the history ends publish in failure with no tag created
\* or pushed and no registry call, a rejected push of the tag ends it in
\* failure with no registry call; the registry is called only after both
\* pushes succeeded.
C8_PublishOrder ==
    [][ last'.op = "publish" =>
        LET st == last'.steps IN
        /\ (Range(st) \cap RegistrySteps # {}) =>
             /\ Before(st, "push", "push_tag")
             /\ \E r \in RegistrySteps : Before(st, "push_tag", r)
             /\ "push_rejected" \notin Range(st)
             /\ "push_tag_rejected" \notin Range(st)
        /\ "push_tag" \in Range(st) => Before(st, "push", "push_tag")
        /\ "push_rejected" \in Range(st) =>
             /\ last'.rc = RC_FAIL
             /\ Range(st) \cap ({"tag_create", "push_tag"} \cup RegistrySteps) = {}
             /\ tags' = tags /\ head' = head
             /\ remoteHead' = remoteHead /\ remoteTags' = remoteTags
             /\ last'.reg = <<>>
        /\ "push_tag_rejected" \in Range(st) =>
             /\ last'.rc = RC_FAIL
             /\ Range(st) \cap RegistrySteps = {}
             /\ remoteTags' = remoteTags
             /\ last'.reg = <<>> ]_vars

\* A publish went through all its steps: history pushed, update tag created,
\* tag pushed, registry called.
C8_Witness ==
    /\ last.op = "publish"
    /\ "tag_create" \in Steps(last)
    /\ "registry_ok" \in Steps(last)
    /\ Len(last.reg) = 2

\* C9: a failing registry call at the end of publish rolls nothing back: the
\* pushed history, the pushed tag and the local tags stay; a publish run
\* directly after it creates no commit and no tag, and when its pushes are
\* accepted it calls the registry again with the same tag and the same hash.
C9_RegistryFailureIsRetryable ==
    [][ last'.op = "publish" =>
        /\ "registry_failed" \in Steps(last') =>
             /\ remoteHead' = head
             /\ head' >= head
             /\ \A i \in 1..Len(tags) : i <= Len(tags') /\ tags'[i] = tags[i]
             /\ last'.reg[1] \in TagNames(tags')
             /\ [name |-> last'.reg[1], hash |-> last'.reg[2]] \in remoteTags'
             /\ remoteTags \subseteq remoteTags'
        /\ last'.retry =>
             /\ head' = head /\ headSpec' = headSpec
             /\ tags' = tags
             /\ spec' = spec
             /\ Steps(last') \cap {"git_commit", "tag_create"} = {}
             /\ ({"push", "push_tag"} \subseteq Steps(last')) =>
                    /\ Steps(last') \cap RegistrySteps # {}
                    /\ last'.reg = last.reg ]_vars

\* A publish whose registry call failed was run again at once, and the
\* registry accepted the same tag and hash.
C9_Witness ==
    /\ last.op = "publish" /\ last.retry
    /\ "registry_ok" \in Steps(last)
    /\ last.reg = last.prevReg
    /\ Len(last.reg) = 2

\* C10: a commit whose tag creation fails because the tag already exists
\* keeps its new commit in the history and reports failure, never success.
C10_FailedTagReportsFailure ==
    [][ ( /\ last'.op = "commit"
          /\ "tag_create_failed" \in Steps(last') )
        => ( /\ head' >= head
             /\ last'.rc # RC_OK ) ]_vars

GitSteps ==
    {"git_add", "git_commit", "git_commit_none", "tag_create",
     "tag_create_failed"}

\* C11: publish in a repository without a local tag fails and has no effect:
\* no remote is added, nothing is pushed, committed or tagged, the registry
\* is not called and the specification file is neither changed nor written.
C11_PublishWithoutTagsDoesNothing ==
    [][ (last'.op = "publish" /\ tags = <<>>)
        => ( /\ last'.rc = RC_FAIL
             /\ Steps(last') = {"tag_list"}
             /\ last'.reg = <<>>
             /\ initialized' = initialized /\ spec' = spec
             /\ gitRemote' = gitRemote
             /\ head' = head /\ headSpec' = headSpec /\ tags' = tags
             /\ remoteHead' = remoteHead /\ remoteTags' = remoteTags ) ]_vars

\* A publish was just refused on a component that is initialized and has its
\* declaration, but no tag.
C11_Witness ==
    /\ last.op = "publish" /\ last.rc = RC_FAIL
    /\ tags = <<>>
    /\ initialized /\ spec.iop # 0

\* C12: a commit on a component that is not initialized, or whose
\* specification has no interface declaration, fails; it creates no commit
\* and no tag and leaves the recorded version (the whole specification) as it
\* is, with or without an explicit version.
C12_UnreadyCommitChangesNothing ==
    [][ (last'.op = "commit" /\ (~initialized \/ spec.iop = 0))
        => ( /\ last'.rc = RC_FAIL
             /\ Steps(last') \cap GitSteps = {}
             /\ head' = head /\ headSpec' = headSpec /\ tags' = tags
             /\ spec' = spec ) ]_vars

\* A commit with an explicit version other than the recorded one was just
\* refused on an initialized component without declaration.
C12_Witness ==
    /\ last.op = "commit" /\ last.rc = RC_FAIL
    /\ initialized /\ spec.iop = 0
    /\ last.version # NoVersion /\ last.version # spec.version

\* C13: the remote and the registry are reached only for a component that is
\* initialized and has a tag, and the first tag comes from a commit that
\* reported success on an initialized component; publish on a component that
\* is not initialized fails before any push or registry call; init on an
\* initialized component fails and leaves the specification as it is.
C13_NoStepSkipsInitialization ==
    /\ []( (tags # <<>> \/ remoteHead # 0 \/ remoteTags # {}) => initialized )
    /\ []( (remoteHead # 0 \/ remoteTags # {}) => tags # <<>> )
    /\ [][ /\ (Steps(last') \cap NetworkSteps # {}) =>
                (initialized /\ tags # <<>>)
           /\ (tags = <<>> /\ tags' # <<>>) =>
                (initialized /\ last'.op = "commit" /\ last'.rc = RC_OK)
           /\ (last'.op = "publish" /\ ~initialized) =>
                /\ last'.rc = RC_FAIL
                /\ Steps(last') \cap NetworkSteps = {}
                /\ remoteHead' = remoteHead /\ remoteTags' = remoteTags
           /\ (last'.op = "init" /\ initialized) =>
                /\ last'.rc = RC_FAIL
                /\ spec' = spec /\ initialized' ]_vars

\* An init was just refused on a component that is initialized, committed and
\* published.
C13_Witness ==
    /\ last.op = "init" /\ last.rc = RC_FAIL
    /\ initialized /\ tags # <<>>
    /\ remoteTags # {}

\* C19: a publish that got its history pushed takes the maximum local tag as
\* candidate; it creates an update tag exactly when its 'Update specification'
\* commit recorded a change (the specification file, with the publish
\* information written, differs from the one committed at HEAD); the update
\* tag has the candidate's component type, name and major.minor.patch, an
\* update counter one higher and the candidate's message; the tag pushed and
\* registered is the update tag when one was created, else the candidate.
C19_UpdateTagOnSpecChange ==
    [][ (last'.op = "publish" /\ "push" \in Steps(last')) =>
        LET candidate == LastTag(tags)
            cname == TagString(candidate)
            changed == [spec EXCEPT !.publish = TRUE] # headSpec
            published ==
                IF changed THEN tags'[Len(tags')]
                ELSE [name |-> cname, message |-> GitTagMessage(tags, cname),
                      hash |-> GitTagHash(tags, cname)]
        IN  /\ cname \in TagNames(tags)
            /\ \A i \in 1..Len(tags) : VersionLeq(TagVersion(i), candidate.version)
            /\ IF changed
               THEN /\ "git_commit" \in Steps(last')
                    /\ "tag_create" \in Steps(last')
                    /\ Len(tags') = Len(tags) + 1
                    /\ \A i \in 1..Len(tags) : tags'[i] = tags[i]
                    /\ LET back == VersionTagParse(published.name)
                       IN  /\ back.component_type = candidate.component_type
                           /\ back.name = candidate.name
                           /\ \A k \in 1..3 :
                                 back.version[k] = candidate.version[k]
                           /\ back.version[4] = candidate.version[4] + 1
                    /\ published.message = GitTagMessage(tags, cname)
                    /\ published.hash = head'
               ELSE /\ "git_commit_none" \in Steps(last')
                    /\ Steps(last') \cap {"tag_create", "tag_create_failed"} = {}
                    /\ tags' = tags /\ head' = head
            /\ "push_tag" \in Steps(last') =>
                 /\ [name |-> published.name, hash |-> published.hash]
                      \in remoteTags'
                 /\ last'.reg = <<published.name, published.hash>> ]_vars

\* A publish just created, pushed and registered the second update tag of a
\* version, under the message of the commit that created the version.
C19_Witness ==
    /\ last.op = "publish"
    /\ "tag_create" \in Steps(last) /\ "registry_ok" \in Steps(last)
    /\ Len(tags) = 3
    /\ TagVersion(3)[4] = 2
    /\ tags[3].message = tags[1].message
    /\ last.reg = <<tags[3].name, tags[3].hash>>

\* The step is a commit that created its tag, or a publish that created its
\* update tag.
TagCreated ==
    /\ last'.op \in {"commit", "publish"}
    /\ "tag_create" \in Steps(last')
    /\ Len(tags') = Len(tags) + 1

\* The VersionTag the step constructs and serializes into the name of the tag
\* it creates.
ConstructedTag ==
    IF last'.op = "commit"
    THEN VersionTag(COMPONENT_TYPE, spec.name,
                    CandidateVersion(last'.version, spec))
    ELSE WithIncrementedUpdateNum(LastTag(tags))

CommitPassesChecks ==
    /\ last'.op = "commit"
    /\ initialized /\ spec.iop # 0
    /\ ~NotAboveTags(IF last'.version # NoVersion THEN last'.version
                                                  ELSE spec.version)

\* C22: a commit that passes its checks takes as target the explicit version
\* when one is given and the recorded version otherwise; it writes the target
\* into the specification file before it stages, commits and tags, so the
\* recorded version is the target whatever the git commit and the creation of
\* the tag do; the tag of the target exists afterwards and is the maximum tag,
\* and when this commit created it, it is the newest tag and the commit
\* reports success.
C22_CommitWritesTargetVersion ==
    [][ CommitPassesChecks =>
        LET target == IF last'.version # NoVersion THEN last'.version
                                                   ELSE spec.version
            name == TagString(VersionTag(COMPONENT_TYPE, spec.name, target))
        IN  /\ spec' = [spec EXCEPT !.version = target]
            /\ Before(last'.steps, "save_spec", "git_add")
            /\ \E c \in {"git_commit", "git_commit_none"} :
                  Before(last'.steps, "git_add", c)
            /\ \E t \in {"tag_create", "tag_create_failed"} :
                  Before(last'.steps, "save_spec", t)
            /\ "git_commit" \in Steps(last') =>
                  (head' = head + 1 /\ headSpec'.version = target)
            /\ name \in TagNames(tags')
            /\ \A i \in 1..Len(tags') :
                  VersionLeq(VersionTagParse(tags'[i].name).version, target)
            /\ "tag_create" \in Steps(last') =>
                  /\ last'.rc = RC_OK
                  /\ Len(tags') = Len(tags) + 1
                  /\ tags'[Len(tags')].name = name
                  /\ tags'[Len(tags')].hash = head'
                  /\ VersionTagParse(tags'[Len(tags')].name).version
                       = spec'.version ]_vars

\* A commit with an explicit version, other than the one the specification
\* recorded at the commit before, just created the second tag, and the
\* specification records that version.
C22_Witness ==
    /\ last.op = "commit" /\ "tag_create" \in Steps(last)
    /\ last.version # NoVersion
    /\ Len(tags) = 2
    /\ TagVersion(2) = last.version
    /\ spec.version = last.version
    /\ TagVersion(1) # spec.version

\* -------------------------------------------------- properties: the registry

\* The step is a registerVersion request that gets past the 404 and 409
\* checks: its operator is known and its version is not yet in the list.
FreshVersionRequest ==
    /\ resp'.op = "registerVersion"
    /\ operators[resp'.name] # NoOperator
    /\ resp'.version \notin Range(heap[operators[resp'.name]].versions)

\* The remote confirms the claimed hash: the clone succeeds and the tag
\* resolves in it to the hash of the request.
Confirmed(r) == r.env.cloneOk /\ r.env.resolved = r.hash

RegistryUnchanged ==
    /\ operators' = operators
    /\ heap' = heap
    /\ operator_versions' = operator_versions

\* C3 as stated: for a known operator and a version not yet recorded,
\* registerVersion succeeds exactly when the commit the registry resolves for
\* the tag equals the claimed hash.
C3_SucceedsIffHashMatches ==
    [][ FreshVersionRequest => (resp'.status = 201 <=> Confirmed(resp')) ]_vars

\* C3 (amended): for a known operator and a version not yet recorded,
\* registerVersion succeeds exactly when the clone succeeds, the tag resolves
\* in it to the claimed hash and the specification file read from the working
\* tree is valid structured data; when the tag resolves to something else the
\* answer is 400 and nothing changes; and every OperatorVersion record is
\* appended with a hash the remote confirmed.
C3_SucceedsIffVerifiedAndReadable ==
    [][ /\ FreshVersionRequest =>
             /\ resp'.status = 201
                  <=> (Confirmed(resp') /\ resp'.env.specFile = "valid")
             /\ (resp'.env.cloneOk /\ resp'.env.resolved # resp'.hash) =>
                  (resp'.status = 400 /\ RegistryUnchanged)
        /\ Len(operator_versions') > Len(operator_versions) =>
             /\ Len(operator_versions') = Len(operator_versions) + 1
             /\ Confirmed(resp')
             /\ operator_versions'[Len(operator_versions')].hash = resp'.hash
             /\ \A k \in 1..Len(operator_versions) :
                   operator_versions'[k] = operator_versions[k] ]_vars

\* A registration was refused although the remote confirmed the claimed hash
\* (the specification file was missing or invalid), and an earlier one was
\* accepted.
C3_Witness ==
    /\ resp.op = "registerVersion"
    /\ resp.status = 500
    /\ Confirmed(resp)
    /\ operator_versions # <<>>

\* C4: registerVersion is all-or-nothing: when the verification fails (the
\* clone, the comparison of the resolved commit, the checkout, the reading of
\* the specification file) neither the version list nor the records change,
\* and a version is appended to a list exactly when its record is appended.
C4_AllOrNothing ==
    [][ /\ ( /\ FreshVersionRequest
             /\ \/ ~Confirmed(resp')
                \/ ~resp'.env.checkoutOk
                \/ resp'.env.specFile # "valid" )
           => RegistryUnchanged
        /\ (heap' # heap /\ operators' = operators)
             <=> operator_versions' # operator_versions ]_vars

\* No (operator, version) pair is recorded twice, in a version list or among
\* the records.
RecordedOnce ==
    /\ \A n \in OpNames : operators[n] # NoOperator =>
          \A i, j \in 1..Len(Operator(n).versions) :
             i # j => Operator(n).versions[i] # Operator(n).versions[j]
    /\ \A i, j \in 1..Len(operator_versions) :
          i # j => \/ operator_versions[i].operator_name
                        # operator_versions[j].operator_name
                   \/ operator_versions[i].version # operator_versions[j].version

\* C5: with one request at a time, registerVersion answers 404 for an unknown
\* operator and 409 for a version already in the operator's list, both without
\* a verification fetch and without changing the lists or the records; so no
\* (operator, version) pair is ever recorded twice.
C5_UnknownAndDuplicateRejected ==
    /\ []RecordedOnce
    /\ [][ resp'.op = "registerVersion" =>
           /\ operators[resp'.name] = NoOperator =>
                /\ resp'.status = 404
                /\ resp'.env = NoEnv
                /\ RegistryUnchanged
           /\ ( /\ operators[resp'.name] # NoOperator
                /\ resp'.version \in Range(heap[operators[resp'.name]].versions) )
              => /\ resp'.status = 409
                 /\ resp'.env = NoEnv
                 /\ RegistryUnchanged ]_vars

\* A version that is in the operator's list was just refused with 409.
C5_Witness ==
    /\ resp.op = "registerVersion"
    /\ resp.status = 409
    /\ operators[resp.name] # NoOperator
    /\ resp.version \in Range(Operator(resp.name).versions)

\* C6: registerOperator with a name that exists answers 409 and leaves the
\* operator's gitRemoteUrl and version list (and everything else) as they
\* are, whatever the gitRemoteUrl of the request; with a new name it creates
\* the operator with that gitRemoteUrl and an empty version list.
C6_RegisterOperatorConflict ==
    [][ resp'.op = "registerOperator" =>
        IF operators[resp'.name] # NoOperator
        THEN resp'.status = 409 /\ RegistryUnchanged
        ELSE /\ resp'.status = 201
             /\ operators'[resp'.name] # NoOperator
             /\ heap'[operators'[resp'.name]]
                  = [name |-> resp'.name, gitRemoteUrl |-> resp'.url,
                     versions |-> <<>>]
             /\ \A n \in OpNames \ {resp'.name} : operators'[n] = operators[n]
             /\ \A k \in 1..Len(heap) : heap'[k] = heap[k]
             /\ operator_versions' = operator_versions ]_vars

\* A second registration of a name, with another gitRemoteUrl and after a
\* version was registered, was just refused.
C6_Witness ==
    /\ resp.op = "registerOperator"
    /\ resp.status = 409
    /\ Operator(resp.name).gitRemoteUrl # resp.url
    /\ Operator(resp.name).versions # <<>>

\* C7: however the statements of concurrent requests interleave, two
\* registerOperator requests for one name never both succeed, two
\* registerVersion requests for one operator and version never both succeed,
\* and no version is twice in a version list.
C7_ConcurrentUniqueness ==
    /\ \A i, j \in 1..NumReqs :
          ( /\ i # j
            /\ reqs[i].status = 201 /\ reqs[j].status = 201
            /\ reqs[i].kind = reqs[j].kind
            /\ reqs[i].name = reqs[j].name )
          => reqs[i].version # reqs[j].version
    /\ \A k \in 1..Len(heap) :
          \A i, j \in 1..Len(heap[k].versions) :
             i # j => heap[k].versions[i] # heap[k].versions[j]

IsPrefix(s, t) ==
    /\ Len(s) <= Len(t)
    /\ \A k \in 1..Len(s) : t[k] = s[k]

\* C14: with one request at a time, every step of the registry keeps every
\* operator, with its name and its gitRemoteUrl, extends its version list at
\* the end or leaves it (the list before is a prefix of the list after), and
\* keeps every OperatorVersion record at its place with its version, hash,
\* operator name and specification.
C14_RegistryOnlyGrows ==
    [][ /\ \A n \in OpNames : operators[n] # NoOperator =>
              /\ operators'[n] # NoOperator
              /\ heap'[operators'[n]].name = Operator(n).name
              /\ heap'[operators'[n]].gitRemoteUrl = Operator(n).gitRemoteUrl
              /\ IsPrefix(Operator(n).versions, heap'[operators'[n]].versions)
        /\ IsPrefix(operator_versions, operator_versions') ]_vars

\* An operator holds two versions and their two records, and a request to
\* register its name again, with another gitRemoteUrl, was just answered.
C14_Witness ==
    /\ resp.op = "registerOperator"
    /\ operators[resp.name] # NoOperator
    /\ Len(Operator(resp.name).versions) = 2
    /\ Len(operator_versions) = 2
    /\ Operator(resp.name).gitRemoteUrl # resp.url

\* C18: the versions of every operator's version list strictly increase in
\* list order under the total order of versions.
C18_VersionListsIncrease ==
    \A n \in OpNames : operators[n] # NoOperator =>
       \A i, j \in 1..Len(Operator(n).versions) :
          i < j => VersionLess(VersionParse(Operator(n).versions[i]),
                               VersionParse(Operator(n).versions[j]))

\* ----------------------------------------------- properties: the verification

\* The calls that hold a scratch directory.
ActiveCalls == {i \in 1..NumCalls : calls[i].pc \notin {"idle", "done"}}

\* Call i ends with this step.
Ends(i) == calls[i].pc # "done" /\ calls'[i].pc = "done"

\* C15: the scratch directory of a call of fetch_remote_spec is its own (the
\* directories that exist are those of the running calls, one each), and when
\* the call ends, by return, abort or exception, the directory is gone.
C15_ScratchIsScoped ==
    /\ [](scratch = {calls[i].directory : i \in ActiveCalls})
    /\ [](\A i, j \in ActiveCalls :
             i # j => calls[i].directory # calls[j].directory)
    /\ [][ \A i \in 1..NumCalls : Ends(i) =>
              /\ calls[i].directory \in scratch
              /\ calls[i].directory \notin scratch' ]_vars

\* Two calls ended, one returning the specification and one in an error of
\* the server, and no scratch directory is left.
C15_Witness ==
    /\ \E i, j \in 1..NumCalls :
          /\ calls[i].pc = "done" /\ calls[i].status = 200
          /\ calls[j].pc = "done" /\ calls[j].status = 500
    /\ scratch = {}

\* C16: a call of fetch_remote_spec resolves the tag, checks out the commit
\* and reads the specification file in its own scratch directory, however the
\* statements of concurrent calls interleave.
C16_VerificationsAreIsolated ==
    [][ \A i \in 1..NumCalls :
           ( /\ calls[i].pc \in {"rev_parse", "checkout", "open"}
             /\ calls'[i] # calls[i] )
           => cwd = calls[i].directory ]_vars

\* ------------------------------------- properties: the registry, interleaved

\* Request i is a read that is answered in this step.
ReadAnswered(i) ==
    /\ reqs[i].pc = "idle"
    /\ reqs'[i].kind \in {"getOperator", "listVersions", "getVersion"}
    /\ reqs'[i].status = 200

\* C17: what a read is shown is a registry in which the version lists and the
\* records agree: at a getOperator, every version of the list it returns has
\* its OperatorVersion record; at a listVersions or getVersion, every version
\* of the records it returns is in the operator's version list.
C17_ReadsSeeListAndRecordTogether ==
    [][ \A i \in 1..NumReqs : ReadAnswered(i) =>
           LET name == reqs'[i].name
               listed == Range(Operator(name).versions)
               recorded == Range(VersionsOf(RecordsOf(operator_versions, name)))
           IN  IF reqs'[i].kind = "getOperator"
               THEN Range(reqs'[i].seen) \subseteq recorded
               ELSE Range(reqs'[i].seen) \subseteq listed ]_vars

\* ---------------------------------------- properties: the registry's reads

Reads == {"listOperators", "getOperator", "listVersions", "getVersion"}

\* The records of operator `name` with version `version`.
Recorded(records, name, version) ==
    {k \in 1..Len(records) : /\ records[k].operator_name = name
                             /\ records[k].version = version}

\* C21: a read changes neither the operators nor the records; getOperator and
\* listVersions answer 404 exactly for an unknown operator, getVersion exactly
\* for an unknown operator or a version the operator has no record of; a
\* registerVersion that succeeds leaves the record of its operator, version
\* and hash, the only one of that operator and version, and the version in
\* the operator's list; listVersions shows exactly the versions of the
\* operator's records and getOperator the operator's list, which are the
\* same versions, and getVersion shows the hash of the operator's record of
\* that version; listOperators shows the registered names.
C21_ReadsAreReadOnlyAndExact ==
    [][ /\ resp'.op \in Reads => RegistryUnchanged
        /\ resp'.op \in {"getOperator", "listVersions", "getVersion"} =>
             LET name == resp'.name
                 own == {k \in 1..Len(operator_versions) :
                            operator_versions[k].operator_name = name}
             IN  IF operators[name] = NoOperator
                 THEN resp'.status = 404 /\ resp'.seen = <<>>
                 ELSE /\ resp'.op = "getOperator" =>
                           /\ resp'.status = 200
                           /\ resp'.seen = Operator(name).versions
                           /\ resp'.url = Operator(name).gitRemoteUrl
                           /\ Range(resp'.seen)
                                = {operator_versions[k].version : k \in own}
                      /\ resp'.op = "listVersions" =>
                           /\ resp'.status = 200
                           /\ Range(resp'.seen)
                                = {operator_versions[k].version : k \in own}
                           /\ Len(resp'.seen) = Cardinality(own)
                           /\ Range(resp'.seen) = Range(Operator(name).versions)
                      /\ resp'.op = "getVersion" =>
                           LET found == Recorded(operator_versions, name,
                                                 resp'.version)
                           IN  IF found = {}
                               THEN resp'.status = 404
                               ELSE /\ resp'.status = 200
                                    /\ Cardinality(found) = 1
                                    /\ \A k \in found :
                                          resp'.hash = operator_versions[k].hash
                                    /\ resp'.seen = <<resp'.version>>
        /\ resp'.op = "listOperators" =>
             /\ resp'.status = 200
             /\ Range(resp'.seen) = {n \in OpNames : operators[n] # NoOperator}
        /\ (resp'.op = "registerVersion" /\ resp'.status = 201) =>
             LET made == Recorded(operator_versions', resp'.name, resp'.version)
             IN  /\ Cardinality(made) = 1
                 /\ \A k \in made : operator_versions'[k].hash = resp'.hash
                 /\ resp'.version
                      \in Range(heap'[operators'[resp'.name]].versions) ]_vars

\* getVersion just showed the hash of a version of one operator, while the
\* other operator has a record of another version only, and two records exist.
C21_Witness ==
    /\ resp.op = "getVersion" /\ resp.status = 200
    /\ resp.hash \in Hashes
    /\ Len(operator_versions) = 2
    /\ \E k \in 1..2 : /\ operator_versions[k].operator_name # resp.name
                       /\ operator_versions[k].version # resp.version
    /\ \E k \in 1..2 : /\ operator_versions[k].operator_name = resp.name
                       /\ operator_versions[k].version = resp.version
                       /\ operator_versions[k].hash = resp.hash

====
